---------------------------- MODULE Spec2Model ----------------------------
(***************************************************************************)
(* Model of the mail-chars crate: classification of a single `char`        *)
(* against the eight `Charset`s through the 128 entry US_ASCII_LOOKUP      *)
(* table, the `LookupResult` handle, and the predicates is_ws / is_vchar.  *)
(*                                                                         *)
(* A `char` is modelled by its scalar value (what `ch as u32` yields).     *)
(* A call that would index the table out of bounds panics; every operator  *)
(* that indexes the table therefore returns a record [panic, val].         *)
(***************************************************************************)
EXTENDS Integers, Sequences, FiniteSets

VARIABLES ch, cs, res, ret, panicked

vars == <<ch, cs, res, ret, panicked>>

---------------------------------------------------------------------------
(* Bounds of the explored inputs *)

\* every scalar value 0..MaxChar is explored (covers the whole table and
\* the first values past it)
MaxChar == 140

\* a few values far outside of the table: 'down arrow' (U+2193), the last
\* scalar value below the surrogates, the first above them, char::MAX
FarChars == {8595, 55295, 57344, 1114111}

Chars == (0..MaxChar) \cup FarChars

---------------------------------------------------------------------------
(* mod lookup: bit values and table *)

QC == 1
CT == 2
DT == 4
AT == 8
RT == 16
TO == 32
NC == 64
HT == 128

ALPHA == (65..90) \cup (97..122)
DIGIT == 48..57
\* SP and HTAB
WS == {32, 9}

\* rfc5322 qtext = %d33 / %d35-91 / %d93-126
qtext == {33} \cup (35..91) \cup (93..126)
\* rfc5322 ctext = %d33-39 / %d42-91 / %d93-126
ctext == (33..39) \cup (42..91) \cup (93..126)
\* rfc5322 dtext = %d33-90 / %d94-126
dtext == (33..90) \cup (94..126)
\* rfc5322 atext = ALPHA / DIGIT / ! # $ % & ' * + - / = ? ^ _ ` { | } ~
atext == ALPHA \cup DIGIT \cup
         {33, 35, 36, 37, 38, 39, 42, 43, 45, 47, 61, 63, 94, 95, 96, 123, 124, 125, 126}
\* rfc2045 tspecials = ( ) < > @ , ; : \ " / [ ] ? =
tspecials == {40, 41, 60, 62, 64, 44, 59, 58, 92, 34, 47, 91, 93, 63, 61}
\* rfc2045 token = any CHAR except SPACE, CTLs and tspecials
token == (33..126) \ tspecials
\* rfc6838 restricted-name-chars = ALPHA / DIGIT / ! # $ & - ^ _ . +
restricted_name_chars == ALPHA \cup DIGIT \cup {33, 35, 36, 38, 45, 94, 95, 46, 43}
\* rfc5322 obs-NO-WS-CTL = %d1-8 / %d11 / %d12 / %d14-31 / %d127
obs_no_ws_ctl == (1..8) \cup {11, 12} \cup (14..31) \cup {127}
\* rfc7230 tchar = ! # $ % & ' * + - . ^ _ ` | ~ / DIGIT / ALPHA
tchar == ALPHA \cup DIGIT \cup
         {33, 35, 36, 37, 38, 39, 42, 43, 45, 46, 94, 95, 96, 124, 126}

Bit(b, members, i) == IF i \in members THEN b ELSE 0

US_ASCII_LOOKUP ==
    [i \in 0..127 |->
          Bit(QC, qtext \cup WS, i)
        + Bit(CT, ctext \cup WS, i)
        + Bit(DT, dtext \cup WS, i)
        + Bit(AT, atext, i)
        + Bit(RT, restricted_name_chars, i)
        + Bit(TO, token, i)
        + Bit(NC, obs_no_ws_ctl, i)
        + Bit(HT, tchar, i)]

---------------------------------------------------------------------------
(* enum Charset, #[repr(u8)] *)

Charset == {"QTextWs", "CTextWs", "DTextWs", "AText",
            "RestrictedToken", "Token", "ObsNoWsCtl", "Rfc7230Token"}

\* a slip in the discriminants: CTextWs declared as `lookup::QC | lookup::CT`,
\* a u8 distinct from the other seven but not a single bit
CharsetAsU8_TwoBits(charset) ==
    CASE charset = "QTextWs"         -> QC
      [] charset = "CTextWs"         -> QC + CT
      [] charset = "DTextWs"         -> DT
      [] charset = "AText"           -> AT
      [] charset = "RestrictedToken" -> RT
      [] charset = "Token"           -> TO
      [] charset = "ObsNoWsCtl"      -> NC
      [] charset = "Rfc7230Token"    -> HT

\* `charset as u8`
CharsetAsU8(charset) ==
    CASE charset = "QTextWs"         -> QC
      [] charset = "CTextWs"         -> CT
      [] charset = "DTextWs"         -> DT
      [] charset = "AText"           -> AT
      [] charset = "RestrictedToken" -> RT
      [] charset = "Token"           -> TO
      [] charset = "ObsNoWsCtl"      -> NC
      [] charset = "Rfc7230Token"    -> HT

---------------------------------------------------------------------------
(* u8 arithmetic and table indexing *)

RECURSIVE BitAnd(_, _)
\* `a & b` on u8
BitAnd(a, b) ==
    IF a = 0 \/ b = 0
    THEN 0
    ELSE (a % 2) * (b % 2) + 2 * BitAnd(a \div 2, b \div 2)

Ok(v) == [panic |-> FALSE, val |-> v]
Panic == [panic |-> TRUE, val |-> FALSE]

\* `US_ASCII_LOOKUP[index as usize]`: the entry, or a panic outside of
\* the table
IndexTable(index) ==
    IF index \in DOMAIN US_ASCII_LOOKUP
    THEN Ok(US_ASCII_LOOKUP[index])
    ELSE Panic

\* the rest of an expression that read a table entry
Then(entry, v) == IF entry.panic THEN Panic ELSE Ok(v)

---------------------------------------------------------------------------
(* impl Charset *)

\* off by one in the range check: 0x80 is taken for a table index
contains_lookup_OffByOne(self, c, out_of_table_value) ==
    LET index == c
    IN  IF index <= 128
        THEN LET entry == IndexTable(index)
             IN  Then(entry, BitAnd(entry.val, CharsetAsU8(self)) # 0)
        ELSE Ok(out_of_table_value)

\* the out of table value is ignored
contains_lookup_NoDefault(self, c, out_of_table_value) ==
    LET index == c
    IN  IF index < 128
        THEN LET entry == IndexTable(index)
             IN  Then(entry, BitAnd(entry.val, CharsetAsU8(self)) # 0)
        ELSE Ok(FALSE)

\* the out of table value is used inside of the table, too
contains_lookup_Widen(self, c, out_of_table_value) ==
    LET index == c
    IN  IF index < 128
        THEN LET entry == IndexTable(index)
             IN  Then(entry, (BitAnd(entry.val, CharsetAsU8(self)) # 0) \/ out_of_table_value)
        ELSE Ok(out_of_table_value)

\* the table is probed at the wrong entry
contains_lookup_Shifted(self, c, out_of_table_value) ==
    LET index == c
    IN  IF index < 128
        THEN LET entry == IndexTable((index + 1) % 128)
             IN  Then(entry, BitAnd(entry.val, CharsetAsU8(self)) # 0)
        ELSE Ok(out_of_table_value)

contains_lookup(self, c, out_of_table_value) ==
    LET index == c
    IN  IF index < 128
        THEN LET entry == IndexTable(index)
             IN  Then(entry, BitAnd(entry.val, CharsetAsU8(self)) # 0)
        ELSE Ok(out_of_table_value)

\* the strict test called with the flag of the extended one
contains_WrongFlag(self, c) == contains_lookup(self, c, TRUE)

contains(self, c) == contains_lookup(self, c, FALSE)

contains_or_non_ascii(self, c) == contains_lookup(self, c, TRUE)

\* Option<u8>
Some(byte) == [some |-> TRUE, byte |-> byte]
None == [some |-> FALSE, byte |-> 0]

\* 0x7f is treated as out of table
lookup_Short(c) ==
    LET index == c
    IN  IF index < 127
        THEN LET entry == IndexTable(index)
             IN  Then(entry, Some(entry.val))
        ELSE Ok(None)

lookup(c) ==
    LET index == c
    IN  IF index < 128
        THEN LET entry == IndexTable(index)
             IN  Then(entry, Some(entry.val))
        ELSE Ok(None)

---------------------------------------------------------------------------
(* impl CharMatchExt for char *)

char_is(self, charset) == contains(charset, self)

char_is_inkl_non_ascii(self, charset) == contains_or_non_ascii(charset, self)

---------------------------------------------------------------------------
(* impl LookupResult, impl CharMatchExt for LookupResult *)

is_ascii(self) == self.some

lookup_contains(self, charset, default) ==
    IF self.some
    THEN BitAnd(self.byte, CharsetAsU8(charset)) # 0
    ELSE default

res_is(self, charset) == lookup_contains(self, charset, FALSE)

res_is_inkl_non_ascii(self, charset) == lookup_contains(self, charset, TRUE)

---------------------------------------------------------------------------
(* standalone predicates *)

\* the horizontal tab is forgotten
is_ws_NoTab(c) == c = 32

\* '\r' counted as whitespace
is_ws_WithCr(c) == c = 32 \/ c = 9 \/ c = 13

is_ws(c) == c = 32 \/ c = 9

\* inclusive lower boundary
is_vchar_InclSpace(c) == 32 <= c /\ c <= 126

is_vchar(c) == 32 < c /\ c <= 126

---------------------------------------------------------------------------
(* The caller: holds one char `ch` and one charset `cs`, and calls the     *)
(* query operations in any order.  `ret[op]` is <<>> until `op` returned   *)
(* and <<v>> afterwards; `res` holds the LookupResult once                 *)
(* Charset::lookup returned; a panic ends the program.                     *)

CharOps == {"contains", "contains_or_non_ascii", "char_is", "char_is_inkl_non_ascii"}
ResOps == {"res_is", "res_is_inkl_non_ascii", "is_ascii"}
PredOps == {"is_ws", "is_vchar"}
Ops == CharOps \cup ResOps \cup PredOps

Init ==
    /\ ch \in Chars
    /\ cs \in Charset
    /\ res = <<>>
    /\ ret = [op \in Ops |-> <<>>]
    /\ panicked = FALSE

\* a call of a fallible operation returning r into slot op
Return(op, r) ==
    IF r.panic
    THEN /\ panicked' = TRUE
         /\ UNCHANGED ret
    ELSE /\ ret' = [ret EXCEPT ![op] = <<r.val>>]
         /\ UNCHANGED panicked

Contains ==
    /\ ~panicked
    /\ ret["contains"] = <<>>
    /\ Return("contains", contains(cs, ch))
    /\ UNCHANGED <<ch, cs, res>>

ContainsOrNonAscii ==
    /\ ~panicked
    /\ ret["contains_or_non_ascii"] = <<>>
    /\ Return("contains_or_non_ascii", contains_or_non_ascii(cs, ch))
    /\ UNCHANGED <<ch, cs, res>>

CharIs ==
    /\ ~panicked
    /\ ret["char_is"] = <<>>
    /\ Return("char_is", char_is(ch, cs))
    /\ UNCHANGED <<ch, cs, res>>

CharIsInklNonAscii ==
    /\ ~panicked
    /\ ret["char_is_inkl_non_ascii"] = <<>>
    /\ Return("char_is_inkl_non_ascii", char_is_inkl_non_ascii(ch, cs))
    /\ UNCHANGED <<ch, cs, res>>

Lookup ==
    /\ ~panicked
    /\ res = <<>>
    /\ LET r == lookup(ch)
       IN  IF r.panic
           THEN /\ panicked' = TRUE
                /\ UNCHANGED res
           ELSE /\ res' = <<r.val>>
                /\ UNCHANGED panicked
    /\ UNCHANGED <<ch, cs, ret>>

ResIs ==
    /\ ~panicked
    /\ res # <<>>
    /\ ret["res_is"] = <<>>
    /\ Return("res_is", Ok(res_is(res[1], cs)))
    /\ UNCHANGED <<ch, cs, res>>

ResIsInklNonAscii ==
    /\ ~panicked
    /\ res # <<>>
    /\ ret["res_is_inkl_non_ascii"] = <<>>
    /\ Return("res_is_inkl_non_ascii", Ok(res_is_inkl_non_ascii(res[1], cs)))
    /\ UNCHANGED <<ch, cs, res>>

IsAscii ==
    /\ ~panicked
    /\ res # <<>>
    /\ ret["is_ascii"] = <<>>
    /\ Return("is_ascii", Ok(is_ascii(res[1])))
    /\ UNCHANGED <<ch, cs, res>>

IsWs ==
    /\ ~panicked
    /\ ret["is_ws"] = <<>>
    /\ Return("is_ws", Ok(is_ws(ch)))
    /\ UNCHANGED <<ch, cs, res>>

IsVchar ==
    /\ ~panicked
    /\ ret["is_vchar"] = <<>>
    /\ Return("is_vchar", Ok(is_vchar(ch)))
    /\ UNCHANGED <<ch, cs, res>>

Next ==
    \/ Contains
    \/ ContainsOrNonAscii
    \/ CharIs
    \/ CharIsInklNonAscii
    \/ Lookup
    \/ ResIs
    \/ ResIsInklNonAscii
    \/ IsAscii
    \/ IsWs
    \/ IsVchar

Spec == Init /\ [][Next]_vars

---------------------------------------------------------------------------
(* Properties *)

Done(op) == ret[op] # <<>>
Val(op) == ret[op][1]

StrictOps == {"contains", "char_is", "res_is"}
ExtendedOps == {"contains_or_non_ascii", "char_is_inkl_non_ascii", "res_is_inkl_non_ascii"}
MemberOps == StrictOps \cup ExtendedOps

\* bit `mask` (a power of two) of `byte`, by division instead of masking
BitOf(byte, mask) == (byte \div mask) % 2 = 1

\* C1: for every char and every Charset the direct path and the lookup
\* path agree, in the strict mode (contains vs. lookup(c).is) and in the
\* extended mode (contains_or_non_ascii vs. lookup(c).is_inkl_non_ascii).
C1_PathsAgree ==
    /\ (Done("contains") /\ Done("res_is"))
          => Val("contains") = Val("res_is")
    /\ (Done("contains_or_non_ascii") /\ Done("res_is_inkl_non_ascii"))
          => Val("contains_or_non_ascii") = Val("res_is_inkl_non_ascii")

\* both paths were taken in both modes for a char outside of the table
C1_Witness ==
    /\ ch >= 128
    /\ Done("contains") /\ Done("res_is")
    /\ Done("contains_or_non_ascii") /\ Done("res_is_inkl_non_ascii")
    /\ Val("res_is_inkl_non_ascii") /\ ~Val("res_is")

\* C2: for a char with codepoint >= 128 and any of the eight Charsets the
\* strict tests (contains, char.is, LookupResult.is) return false and the
\* extended tests (contains_or_non_ascii, char.is_inkl_non_ascii,
\* LookupResult.is_inkl_non_ascii) return true.
C2_OutOfTable ==
    ch >= 128 =>
        /\ \A op \in StrictOps : Done(op) => ~Val(op)
        /\ \A op \in ExtendedOps : Done(op) => Val(op)

\* all six tests returned for a non ascii char tested against Rfc7230Token
C2_Witness ==
    /\ ch = 8595
    /\ cs = "Rfc7230Token"
    /\ \A op \in MemberOps : Done(op)

\* C3: lookup(c).is_ascii() is true iff the codepoint of c is below 128.
C3_IsAscii ==
    Done("is_ascii") => (Val("is_ascii") <=> ch < 128)

\* is_ascii returned true for the last table entry 0x7F
C3_Witness ==
    /\ ch = 127
    /\ Done("is_ascii")
    /\ Val("is_ascii")

\* C4: for a char with codepoint < 128 every test, strict or extended,
\* returns true iff the bit of the Charset is set in
\* US_ASCII_LOOKUP[codepoint]; so strict and extended return the same.
C4_InTable ==
    ch < 128 =>
        \A op \in MemberOps :
            Done(op) => (Val(op) <=> BitOf(US_ASCII_LOOKUP[ch], CharsetAsU8(cs)))

\* '<' is not in AText: the extended tests returned false like the strict
C4_Witness ==
    /\ ch = 60
    /\ cs = "AText"
    /\ \A op \in MemberOps : Done(op)
    /\ ~Val("contains_or_non_ascii")
    /\ ~Val("res_is_inkl_non_ascii")

\* C5: is_vchar(c) is true exactly for the codepoints 0x21..=0x7E.
C5_IsVchar ==
    Done("is_vchar") => (Val("is_vchar") <=> ch \in 33..126)

\* is_vchar returned false for the space
C5_Witness ==
    /\ ch = 32
    /\ Done("is_vchar")
    /\ ~Val("is_vchar")

\* C6: is_ws(c) is true exactly for the space (0x20) and the horizontal
\* tab (0x09).
C6_IsWs ==
    Done("is_ws") => (Val("is_ws") <=> ch \in {32, 9})

\* is_ws returned true for the horizontal tab
C6_Witness ==
    /\ ch = 9
    /\ Done("is_ws")
    /\ Val("is_ws")

\* C7: no query operation panics, and each returns a boolean (lookup a
\* LookupResult), whatever the char is.
C7_NoPanic ==
    /\ ~panicked
    /\ \A op \in Ops : Done(op) => Val(op) \in BOOLEAN
    /\ res # <<>> => res[1].some \in BOOLEAN

\* every operation returned for 0x80, the first char outside of the table
C7_Witness ==
    /\ ch = 128
    /\ res # <<>>
    /\ \A op \in Ops : Done(op)

PowersOfTwoU8 == {1, 2, 4, 8, 16, 32, 64, 128}

\* the characters the grammar of a Charset allows
GrammarOf(charset) ==
    CASE charset = "QTextWs"         -> qtext \cup WS
      [] charset = "CTextWs"         -> ctext \cup WS
      [] charset = "DTextWs"         -> dtext \cup WS
      [] charset = "AText"           -> atext
      [] charset = "RestrictedToken" -> restricted_name_chars
      [] charset = "Token"           -> token
      [] charset = "ObsNoWsCtl"      -> obs_no_ws_ctl
      [] charset = "Rfc7230Token"    -> tchar

\* C8: the discriminant of a Charset is a single non-zero bit of a u8 that
\* no other Charset shares, so that no test of a table byte against the
\* Charset returns true for a char outside of the Charset's own grammar,
\* whatever bits of other Charsets the byte holds.
C8_DistinctBits ==
    /\ CharsetAsU8(cs) \in PowersOfTwoU8
    /\ \A other \in Charset \ {cs} :
          /\ CharsetAsU8(other) # CharsetAsU8(cs)
          /\ BitAnd(CharsetAsU8(other), CharsetAsU8(cs)) = 0
    /\ ch < 128 =>
          \A op \in MemberOps : (Done(op) /\ Val(op)) => ch \in GrammarOf(cs)

\* '(' tested against CTextWs: the byte holds the bit of QTextWs (and of
\* others) but not the one of CTextWs, and the tests returned false
C8_Witness ==
    /\ ch = 40
    /\ cs = "CTextWs"
    /\ res # <<>>
    /\ BitAnd(res[1].byte, CharsetAsU8("QTextWs")) # 0
    /\ Done("res_is") /\ ~Val("res_is")
    /\ Done("contains") /\ ~Val("contains")

\* the memberships the documentation and the tests name:
\* '<' (60), 'd' (100), '.' (46)
NamedMembership ==
    { <<60, "QTextWs", TRUE>>, <<60, "CTextWs", TRUE>>, <<60, "AText", FALSE>>,
      <<100, "AText", TRUE>>, <<100, "Token", TRUE>>,
      <<46, "Token", TRUE>>, <<46, "CTextWs", TRUE>>, <<46, "AText", FALSE>> }

\* C9: '<' is in QTextWs and CTextWs but not in AText, 'd' is in AText and
\* Token, '.' is in Token and CTextWs but not in AText.
C9_Overlap ==
    \A m \in NamedMembership :
        (ch = m[1] /\ cs = m[2]) =>
            \A op \in MemberOps : Done(op) => Val(op) = m[3]

\* '.' was looked up and is(AText) returned false
C9_Witness ==
    /\ ch = 46
    /\ cs = "AText"
    /\ Done("res_is")
    /\ ~Val("res_is")
    /\ Done("is_ascii")

WsCharsets == {"QTextWs", "CTextWs", "DTextWs"}

\* C10: a char for which is_ws returns true is in QTextWs, CTextWs and
\* DTextWs, and '\r' (13) is in none of the three.
C10_WsMerged ==
    cs \in WsCharsets =>
        /\ (Done("is_ws") /\ Val("is_ws"))
              => \A op \in MemberOps : Done(op) => Val(op)
        /\ ch = 13 => \A op \in MemberOps : Done(op) => ~Val(op)

\* the horizontal tab is whitespace and was found in DTextWs
C10_Witness ==
    /\ ch = 9
    /\ cs = "DTextWs"
    /\ Done("is_ws") /\ Val("is_ws")
    /\ Done("contains") /\ Val("contains")
    /\ Done("res_is") /\ Val("res_is")

===========================================================================
